---- MODULE Spec2Model ----
(***************************************************************************)
(* A model of src/main.rs of DEM_Rust: the ASCII-grid parser asc_to_image, *)
(* the renderers data_to_grayscale and rgb, hill_shading,                  *)
(* compute_gradients, draw_vector_field and the pipeline of main.          *)
(*                                                                         *)
(* f32 values are modelled as NaN, +inf, -inf or an exact rational n/d     *)
(* (rounding of finite results is not modelled; the small integers the     *)
(* model draws are exact in f32, and so are their differences).  u32       *)
(* values are modelled modulo 2^32 with the residues above 2^31 written as *)
(* negative numbers (-1 stands for 2^32 - 1), which is what a wrapping     *)
(* subtraction of small numbers produces.                                  *)
(***************************************************************************)
EXTENDS Integers, Sequences, FiniteSets, TLC

VARIABLES
    pc,             \* position of the running program or harness
    overflow_checks,\* build profile: TRUE = debug (overflow panics), FALSE = release (wraps)
    file_ok,        \* whether read_file can open and read the input file
    out_ok,         \* whether the output directory src/output_img can be written to
    content,        \* the text of the input: a sequence of lines, each a sequence of tokens
    result,         \* what asc_to_image returned: [ok, cells, width, height, cell_size]
    image_gray,     \* the raster data_to_grayscale returned
    img_rgb,        \* the raster rgb returned (the coloured image handed to hill_shading)
    hillshade_gray, \* first raster hill_shading returned
    hillshade_rgb,  \* second raster hill_shading returned
    gradients,      \* the vector compute_gradients returned
    grad_img,       \* the overlay draw_vector_field drew on
    grad_window,    \* the window_size handed to compute_gradients
    files           \* the output files saved so far, in order

vars == <<pc, overflow_checks, file_ok, out_ok, content, result, image_gray, img_rgb,
          hillshade_gray, hillshade_rgb, gradients, grad_img, grad_window, files>>

----------------------------------------------------------------------------
(* Bounds of the model                                                     *)

\* most header candidates placed before the optional late line and the data rows
MaxHeaderLines == 6
\* largest width and height of the grids handed directly to a renderer
MaxDim == 3
\* longest cell vector handed directly to data_to_grayscale
MaxGrayCells == 4
\* most data tokens of an input of main
MaxMainCells == 10
\* most cells of a grid handed to hill_shading that differ from the others
MaxSpecial == 1

----------------------------------------------------------------------------
(* f32                                                                     *)

Abs(n) == IF n < 0 THEN -n ELSE n

RECURSIVE Gcd(_, _)
Gcd(a, b) == IF b = 0 THEN a ELSE Gcd(b, a % b)

NaN == [k |-> "nan", n |-> 0, d |-> 1]
PInf == [k |-> "inf", n |-> 1, d |-> 1]
NInf == [k |-> "inf", n |-> -1, d |-> 1]

\* the finite value n/d, d # 0, in lowest terms with a positive denominator
Rat(n, d) ==
    LET g == Gcd(Abs(n), Abs(d))
        s == IF d < 0 THEN -1 ELSE 1
    IN  [k |-> "fin", n |-> s * (n \div g), d |-> s * (d \div g)]

Fin(n) == [k |-> "fin", n |-> n, d |-> 1]

IsNaN(a) == a.k = "nan"
IsFin(a) == a.k = "fin"
IsInf(a) == a.k = "inf"

Sgn(a) == IF a.n > 0 THEN 1 ELSE IF a.n < 0 THEN -1 ELSE 0

Inf(s) == IF s > 0 THEN PInf ELSE NInf

FNeg(a) == IF IsNaN(a) THEN NaN ELSE [a EXCEPT !.n = -a.n]

FAdd(a, b) ==
    IF IsNaN(a) \/ IsNaN(b) THEN NaN
    ELSE IF IsInf(a) /\ IsInf(b) THEN (IF a.n = b.n THEN a ELSE NaN)
    ELSE IF IsInf(a) THEN a
    ELSE IF IsInf(b) THEN b
    ELSE LET g == Gcd(a.d, b.d)
         IN  Rat(a.n * (b.d \div g) + b.n * (a.d \div g), (a.d \div g) * b.d)

FSub(a, b) == FAdd(a, FNeg(b))

FMul(a, b) ==
    IF IsNaN(a) \/ IsNaN(b) THEN NaN
    ELSE IF IsInf(a) \/ IsInf(b)
         THEN (IF Sgn(a) * Sgn(b) = 0 THEN NaN ELSE Inf(Sgn(a) * Sgn(b)))
    ELSE LET g1 == Gcd(Abs(a.n), b.d)
             g2 == Gcd(Abs(b.n), a.d)
         IN  Rat((a.n \div g1) * (b.n \div g2), (a.d \div g2) * (b.d \div g1))

\* IEEE division; the sign of a zero is not modelled (x / 0 takes the sign of x)
FDiv(a, b) ==
    IF IsNaN(a) \/ IsNaN(b) THEN NaN
    ELSE IF IsInf(a) THEN (IF IsInf(b) THEN NaN
                           ELSE Inf(Sgn(a) * (IF Sgn(b) < 0 THEN -1 ELSE 1)))
    ELSE IF IsInf(b) THEN Fin(0)
    ELSE IF b.n = 0 THEN (IF a.n = 0 THEN NaN ELSE Inf(Sgn(a)))
    ELSE Rat(a.n * b.d, a.d * b.n)

\* a < b, a == b, a > b of f32: FALSE when either side is NaN
FLt(a, b) ==
    IF IsNaN(a) \/ IsNaN(b) THEN FALSE
    ELSE IF IsInf(a) THEN a.n < 0 /\ b # NInf
    ELSE IF IsInf(b) THEN b.n > 0
    ELSE a.n * b.d < b.n * a.d

FEq(a, b) == ~IsNaN(a) /\ ~IsNaN(b) /\ a = b

FGt(a, b) == FLt(b, a)

\* f32::min and f32::max: when one argument is NaN the other is returned
f32_min(a, b) == IF IsNaN(a) THEN b ELSE IF IsNaN(b) THEN a ELSE IF FLt(b, a) THEN b ELSE a

f32_max(a, b) == IF IsNaN(a) THEN b ELSE IF IsNaN(b) THEN a ELSE IF FLt(a, b) THEN b ELSE a

\* `x as u8`: NaN gives 0, the value is truncated toward zero and saturates at 0 and 255
as_u8(a) ==
    IF IsNaN(a) THEN 0
    ELSE IF IsInf(a) THEN (IF a.n > 0 THEN 255 ELSE 0)
    ELSE IF a.n <= 0 THEN 0
    ELSE IF a.n \div a.d > 255 THEN 255
    ELSE a.n \div a.d

----------------------------------------------------------------------------
(* str::parse                                                              *)

\* the tokens of the model that parse as f32, with their values
F32Table ==
    ("0" :> Fin(0)) @@ ("1" :> Fin(1)) @@ ("2" :> Fin(2)) @@ ("2.0" :> Fin(2)) @@
    ("3" :> Fin(3)) @@ ("5" :> Fin(5)) @@ ("30" :> Fin(30)) @@ ("-9999" :> Fin(-9999)) @@
    ("-9999.0" :> Fin(-9999)) @@ ("nan" :> NaN) @@ ("inf" :> PInf)

\* the tokens of the model that parse as u32, with their values
U32Table == ("0" :> 0) @@ ("1" :> 1) @@ ("2" :> 2) @@ ("3" :> 3) @@ ("5" :> 5) @@ ("30" :> 30)

parse_f32(tok) ==
    IF tok \in DOMAIN F32Table THEN [ok |-> TRUE, v |-> F32Table[tok]]
    ELSE [ok |-> FALSE, v |-> NaN]

parse_u32(tok) ==
    IF tok \in DOMAIN U32Table THEN [ok |-> TRUE, v |-> U32Table[tok]]
    ELSE [ok |-> FALSE, v |-> 0]

----------------------------------------------------------------------------
(* asc_to_image                                                            *)

HeaderLineCount == 6

\* the locals of asc_to_image before the first line is read
ParserInit ==
    [header_lines |-> HeaderLineCount, width |-> 0, height |-> 0, data_elevation |-> <<>>,
     nodata_value |-> NaN, cell_size |-> Fin(1), err |-> FALSE]

\* mutant: a value that does not parse leaves the field as it is
HeaderMatchLenient(st, parts) ==
    IF Len(parts) = 2 /\ parts[1] = "ncols" /\ parse_u32(parts[2]).ok
    THEN [st EXCEPT !.width = parse_u32(parts[2]).v]
    ELSE IF Len(parts) = 2 /\ parts[1] = "nrows" /\ parse_u32(parts[2]).ok
    THEN [st EXCEPT !.height = parse_u32(parts[2]).v]
    ELSE IF Len(parts) = 2 /\ parts[1] = "nodata_value" /\ parse_f32(parts[2]).ok
    THEN [st EXCEPT !.nodata_value = parse_f32(parts[2]).v]
    ELSE IF Len(parts) = 2 /\ parts[1] = "cellsize" /\ parse_f32(parts[2]).ok
    THEN [st EXCEPT !.cell_size = parse_f32(parts[2]).v]
    ELSE st

\* the match on a header line: a slice of exactly two tokens whose first is a known key
HeaderMatch(st, parts) ==
    IF Len(parts) = 2 /\ parts[1] = "ncols"
    THEN LET p == parse_u32(parts[2])
         IN  IF p.ok THEN [st EXCEPT !.width = p.v] ELSE [st EXCEPT !.err = TRUE]
    ELSE IF Len(parts) = 2 /\ parts[1] = "nrows"
    THEN LET p == parse_u32(parts[2])
         IN  IF p.ok THEN [st EXCEPT !.height = p.v] ELSE [st EXCEPT !.err = TRUE]
    ELSE IF Len(parts) = 2 /\ parts[1] = "nodata_value"
    THEN LET p == parse_f32(parts[2])
         IN  IF p.ok THEN [st EXCEPT !.nodata_value = p.v] ELSE [st EXCEPT !.err = TRUE]
    ELSE IF Len(parts) = 2 /\ parts[1] = "cellsize"
    THEN LET p == parse_f32(parts[2])
         IN  IF p.ok THEN [st EXCEPT !.cell_size = p.v] ELSE [st EXCEPT !.err = TRUE]
    ELSE st

\* mutant: the token is compared with nodata_value as text, so "-9999.0" is kept
RECURSIVE PushValuesTextual(_, _, _)
PushValuesTextual(data, nodata, parts) ==
    IF parts = <<>> THEN data
    ELSE LET p == parse_f32(Head(parts))
             d == IF p.ok
                  THEN Append(data, IF Head(parts) = "-9999" /\ FEq(p.v, nodata)
                                    THEN NaN ELSE p.v)
                  ELSE data
         IN  PushValuesTextual(d, nodata, Tail(parts))

\* the loop over the tokens of a data line: a token that parses is pushed, NaN in
\* place of a value equal to nodata_value; a token that does not parse is skipped
RECURSIVE PushValues(_, _, _)
PushValues(data, nodata, parts) ==
    IF parts = <<>> THEN data
    ELSE LET p == parse_f32(Head(parts))
             d == IF p.ok
                  THEN Append(data, IF FEq(p.v, nodata) THEN NaN ELSE p.v)
                  ELSE data
         IN  PushValues(d, nodata, Tail(parts))

\* one iteration of `while let Some(line) = reader.next()`
ParseLine(st, parts) ==
    IF st.header_lines > 0
    THEN HeaderMatch([st EXCEPT !.header_lines = st.header_lines - 1], parts)
    ELSE [st EXCEPT !.data_elevation = PushValues(st.data_elevation, st.nodata_value, parts)]

\* the loop over the lines; `?` returns the error at once
RECURSIVE ParseLines(_, _)
ParseLines(st, lines) ==
    IF st.err \/ lines = <<>> THEN st
    ELSE ParseLines(ParseLine(st, Head(lines)), Tail(lines))

ErrResult == [ok |-> FALSE, cells |-> <<>>, width |-> 0, height |-> 0, cell_size |-> Fin(1)]

asc_to_image(text) ==
    LET st == ParseLines(ParserInit, text)
    IN  IF st.err THEN ErrResult
        ELSE [ok |-> TRUE, cells |-> st.data_elevation, width |-> st.width,
              height |-> st.height, cell_size |-> st.cell_size]

----------------------------------------------------------------------------
(* u32 arithmetic and the image buffers                                    *)

Max(a, b) == IF a > b THEN a ELSE b
Min(a, b) == IF a < b THEN a ELSE b

\* a - b on u32 overflows when a < b: a panic under overflow checks, a wrap without
SubOverflows(a, b) == a < b

\* the values a loop `for v in lo..hi` runs through.  A wrapped hi (negative here) is
\* above every dimension: the loop is followed up to the first value outside the
\* raster of dimension dim, whose iteration, when it has one, panics
Range(lo, hi, dim) == IF hi < 0 THEN lo..Max(lo, dim) ELSE lo..(hi - 1)

\* ImageBuffer::new: width * height pixels of the default value
NewImage(w, h, px) == [width |-> w, height |-> h, px |-> [i \in 1..(w * h) |-> px]]

NoImage == [width |-> 0, height |-> 0, px |-> <<>>]

\* the pixel of GrayImage::new
BlankLuma == 0

\* mutant: a new RGBA raster that is opaque black
OpaqueBlackRgba == <<0, 0, 0, 255>>

\* the pixel of RgbaImage::new
BlankRgba == <<0, 0, 0, 0>>

InImage(img, x, y) == x >= 0 /\ y >= 0 /\ x < img.width /\ y < img.height

\* put_pixel and get_pixel panic outside the image; inside, the pixel is at y * width + x
put_pixel(img, x, y, px) == [img EXCEPT !.px[y * img.width + x + 1] = px]

get_pixel(img, x, y) == img.px[y * img.width + x + 1]

----------------------------------------------------------------------------
(* data_to_grayscale                                                       *)

\* data.iter().cloned().fold(init, f) for f = f32::min or f32::max, which return the
\* other argument when one is NaN: the fold of the cells lo..hi, halved to keep the
\* evaluation shallow (both functions are associative)
RECURSIVE range_min(_, _, _)
range_min(data, lo, hi) ==
    IF lo = hi THEN data[lo]
    ELSE LET mid == (lo + hi) \div 2
         IN  f32_min(range_min(data, lo, mid), range_min(data, mid + 1, hi))

RECURSIVE range_max(_, _, _)
range_max(data, lo, hi) ==
    IF lo = hi THEN data[lo]
    ELSE LET mid == (lo + hi) \div 2
         IN  f32_max(range_max(data, lo, mid), range_max(data, mid + 1, hi))

fold_min(data) == IF data = <<>> THEN PInf ELSE f32_min(PInf, range_min(data, 1, Len(data)))

fold_max(data) == IF data = <<>> THEN NInf ELSE f32_max(NInf, range_max(data, 1, Len(data)))

\* mutant: a degenerate range normalises to 1.0
normalized_value_one(value, min_val, range) ==
    IF FGt(range, Fin(0)) THEN FDiv(FSub(value, min_val), range) ELSE Fin(1)

\* the normalised value of one cell
normalized_value(value, min_val, range) ==
    IF FGt(range, Fin(0)) THEN FDiv(FSub(value, min_val), range) ELSE Fin(0)

\* mutant: the pixel is scaled by 256 and wraps instead of saturating
pixel_value_wrapping(value, min_val, range) ==
    LET v == FMul(normalized_value(value, min_val, range), Fin(256))
    IN  IF IsFin(v) /\ v.n >= 0 THEN (v.n \div v.d) % 256 ELSE 0

\* mutant: the product is rounded to the nearest integer before the cast
pixel_value_rounding(value, min_val, range) ==
    as_u8(FAdd(FMul(normalized_value(value, min_val, range), Fin(255)), Rat(1, 2)))

\* the pixel of one cell: (normalized_value * 255.0) as u8
pixel_value(value, min_val, range) ==
    as_u8(FMul(normalized_value(value, min_val, range), Fin(255)))

\* whether the iteration of cell i (counted from 0) panics: i % 0, or a put_pixel at
\* (i % width, i / width) outside the image
CellPanics(i, width, height) == width = 0 \/ i \div width >= height

\* the image after the loop over the cells: the pixel of cell i (counted from 0) is
\* put at (i % width, i / width), which is pixel i of the row-major buffer
Rendered(pixels, width, height, blank) ==
    [width |-> width, height |-> height,
     px |-> [j \in 1..(width * height) |-> IF j <= Len(pixels) THEN pixels[j] ELSE blank]]

data_to_grayscale(data_processed, width, height) ==
    LET min_val == fold_min(data_processed)
        max_val == fold_max(data_processed)
        range == FSub(max_val, min_val)
        pixels == [i \in 1..Len(data_processed) |->
                     pixel_value(data_processed[i], min_val, range)]
    IN  IF \E i \in 0..(Len(data_processed) - 1) : CellPanics(i, width, height)
        THEN [panic |-> TRUE, img |-> NoImage]
        ELSE [panic |-> FALSE, img |-> Rendered(pixels, width, height, BlankLuma)]

----------------------------------------------------------------------------
(* rgb                                                                     *)

\* preset::turbo().at(t).to_rgba8() belongs to the colorgrad crate.  Its colours are
\* stood in for by a ramp between the two ends of the turbo colour map, t clamped to
\* [0, 1] and NaN taken as 0; only the shape of the result (three channels of 0..255)
\* is relied on
TurboAt(t) ==
    LET c == IF IsNaN(t) \/ FLt(t, Fin(0)) THEN Fin(0)
             ELSE IF FGt(t, Fin(1)) THEN Fin(1) ELSE t
        ch(lo, hi) == as_u8(FAdd(Fin(lo), FMul(c, Fin(hi - lo))))
    IN  <<ch(48, 122), ch(18, 4), ch(59, 3)>>

rgb(data_processed, width, height) ==
    LET min_val == fold_min(data_processed)
        max_val == fold_max(data_processed)
        range == FSub(max_val, min_val)
        pixels == [i \in 1..Len(data_processed) |->
                     LET color == TurboAt(normalized_value(data_processed[i], min_val, range))
                     IN  <<color[1], color[2], color[3], 255>>]
    IN  IF \E i \in 0..(Len(data_processed) - 1) : CellPanics(i, width, height)
        THEN [panic |-> TRUE, img |-> NoImage]
        ELSE [panic |-> FALSE, img |-> Rendered(pixels, width, height, BlankRgba)]

----------------------------------------------------------------------------
(* hill_shading                                                            *)

\* the largest r with r * r <= n, found between lo and hi
RECURSIVE ISqrtIn(_, _, _)
ISqrtIn(n, lo, hi) ==
    IF lo >= hi THEN lo
    ELSE LET mid == (lo + hi + 1) \div 2
         IN  IF mid * mid <= n THEN ISqrtIn(n, mid, hi) ELSE ISqrtIn(n, lo, mid - 1)

ISqrt(n) == ISqrtIn(n, 0, Min(n, 46340))

\* cos and sin of the two angles main passes (45 and 315 degrees), in thousandths
CosMilli(deg) == IF deg = 45 \/ deg = 315 THEN 707 ELSE 1000

SinMilli(deg) == IF deg = 45 THEN 707 ELSE IF deg = 315 THEN -707 ELSE 0

\* 255 * (cos(alt) * cos(slope) + sin(alt) * sin(slope) * cos(az - aspect)) with
\* slope = atan(sqrt(dz_dx^2 + dz_dy^2)) and aspect = atan2(dz_dy, dz_dx), that is
\* 255 * (cos(alt) + sin(alt) * (cos(az) * dz_dx + sin(az) * dz_dy)) / sqrt(1 + dz_dx^2 + dz_dy^2).
\* For dz_dx = a / q and dz_dy = b / q this is
\* 255 * (cos(alt) * q + sin(alt) * (cos(az) * a + sin(az) * b)) / sqrt(q^2 + a^2 + b^2),
\* computed with the trigonometric factors and the square root to three decimals.
\* A NaN derivative gives NaN.  An infinite derivative gives slope = pi/2 (cos 0,
\* sin 1) and the aspect of its direction
intensity(dz_dx, dz_dy, az, alt) ==
    IF IsNaN(dz_dx) \/ IsNaN(dz_dy) THEN NaN
    ELSE IF IsInf(dz_dx) \/ IsInf(dz_dy)
    THEN LET both == IsInf(dz_dx) /\ IsInf(dz_dy)
             unit == IF both THEN 707 ELSE 1000
             ux == IF IsInf(dz_dx) THEN Sgn(dz_dx) * unit ELSE 0
             uy == IF IsInf(dz_dy) THEN Sgn(dz_dy) * unit ELSE 0
         IN  Rat(255 * ((SinMilli(alt) * ((CosMilli(az) * ux + SinMilli(az) * uy) \div 1000))
                        \div 100), 10000)
    ELSE LET g == Gcd(dz_dx.d, dz_dy.d)
             q == (dz_dx.d \div g) * dz_dy.d
             a == dz_dx.n * (q \div dz_dx.d)
             b == dz_dy.n * (q \div dz_dy.d)
             root == ISqrt((q * q + a * a + b * b) * 1000000)
             lit == 10 * CosMilli(alt) * q
                    + ((SinMilli(alt) * CosMilli(az)) \div 100) * a
                    + ((SinMilli(alt) * SinMilli(az)) \div 100) * b
         IN  Rat(255 * lit, 10 * root)

\* f32::clamp(0.0, 255.0): NaN stays NaN
clamp_0_255(a) ==
    IF IsNaN(a) THEN NaN
    ELSE IF FLt(a, Fin(0)) THEN Fin(0)
    ELSE IF FGt(a, Fin(255)) THEN Fin(255) ELSE a

\* the closure idx of the cell (x, y): ((y + dy) * width + (x + dx)) as usize
idx(x, y, width, dx, dy) == (y + dy) * width + (x + dx)

\* the offsets of z1, z2, z3, z4, z6, z7, z8, z9: the centre z5 is not read
Neighbours == {<<-1, -1>>, <<0, -1>>, <<1, -1>>, <<-1, 0>>, <<1, 0>>, <<-1, 1>>, <<0, 1>>, <<1, 1>>}

\* the pixel value of the cell (x, y), its eight reads being in range
shade(data, x, y, width, cellsize, az, alt) ==
    LET z(dx, dy) == data[idx(x, y, width, dx, dy) + 1]
        two(a) == FMul(Fin(2), a)
        den == FMul(Fin(8), cellsize)
        dz_dx == FDiv(FSub(FAdd(FAdd(z(1, -1), two(z(1, 0))), z(1, 1)),
                           FAdd(FAdd(z(-1, -1), two(z(-1, 0))), z(-1, 1))), den)
        dz_dy == FDiv(FSub(FAdd(FAdd(z(-1, 1), two(z(0, 1))), z(1, 1)),
                           FAdd(FAdd(z(-1, -1), two(z(0, -1))), z(1, -1))), den)
    IN  as_u8(clamp_0_255(intensity(dz_dx, dz_dy, az, alt)))

\* (color[c] as f32 * pixel_value as f32 / 255.0) as u8
shade_channel(c, pixel) == as_u8(FDiv(FMul(Fin(c), Fin(pixel)), Fin(255)))

\* whether the iteration of the cell (x, y) panics: a read of data out of range (a
\* negative index is a huge usize), or a put_pixel or get_pixel outside its image
HillCellPanics(data, colored_image, x, y, width, height) ==
    \/ \E n \in Neighbours : \/ idx(x, y, width, n[1], n[2]) < 0
                              \/ idx(x, y, width, n[1], n[2]) >= Len(data)
    \/ x >= width \/ y >= height
    \/ ~InImage(colored_image, x, y)

\* the rows and the columns the two loops run through
HillRows(height) == Range(1, height - 1, height)
HillCols(width) == Range(1, width - 1, width)

hill_shading(data, colored_image, width, height, cellsize, az, alt, checks) ==
    LET ys == HillRows(height)
        xs == HillCols(width)
        none == [panic |-> TRUE, gray |-> NoImage, rgb |-> NoImage]
        px(x, y) == shade(data, x, y, width, cellsize, az, alt)
        col(x, y) == get_pixel(colored_image, x, y)
    IN  IF checks /\ SubOverflows(height, 1) THEN none
        ELSE IF checks /\ ys # {} /\ SubOverflows(width, 1) THEN none
        ELSE IF \E y \in ys, x \in xs : HillCellPanics(data, colored_image, x, y, width, height)
        THEN none
        ELSE [panic |-> FALSE,
              gray |-> [width |-> width, height |-> height,
                        px |-> [i \in 1..(width * height) |->
                                 LET x == (i - 1) % width
                                     y == (i - 1) \div width
                                 IN  IF x \in xs /\ y \in ys THEN px(x, y) ELSE BlankLuma]],
              rgb |-> [width |-> width, height |-> height,
                       px |-> [i \in 1..(width * height) |->
                                LET x == (i - 1) % width
                                    y == (i - 1) \div width
                                IN  IF x \in xs /\ y \in ys
                                    THEN <<shade_channel(col(x, y)[1], px(x, y)),
                                           shade_channel(col(x, y)[2], px(x, y)),
                                           shade_channel(col(x, y)[3], px(x, y)), 255>>
                                    ELSE BlankRgba]]]

----------------------------------------------------------------------------
(* compute_gradients                                                       *)

\* the sum over offset in 1..=half_window of data[base - offset * stride] minus
\* data[base + offset * stride], base counted from 0
RECURSIVE WindowSum(_, _, _, _, _)
WindowSum(data, base, stride, offset, half_window) ==
    IF offset > half_window THEN Fin(0)
    ELSE FAdd(FSub(data[base - offset * stride + 1], data[base + offset * stride + 1]),
              WindowSum(data, base, stride, offset + 1, half_window))

\* the rows and the columns the two loops run through
GradRows(height, half_window) == Range(half_window, height - half_window, height)
GradCols(width, half_window) == Range(half_window, width - half_window, width)

\* whether the iteration of the cell (x, y) panics: a read of data or the write of
\* gradients[idx] out of range
GradCellPanics(data, x, y, width, height, half_window) ==
    \/ \E offset \in 1..half_window :
          \/ y * width + (x - offset) >= Len(data)
          \/ y * width + (x + offset) >= Len(data)
          \/ (y - offset) * width + x >= Len(data)
          \/ (y + offset) * width + x >= Len(data)
    \/ y * width + x >= width * height

compute_gradients(data, width, height, window_size, checks) ==
    LET half_window == window_size \div 2
        ys == GradRows(height, half_window)
        xs == GradCols(width, half_window)
        hw == Fin(half_window)
        zero == <<Fin(0), Fin(0)>>
    IN  IF checks /\ SubOverflows(height, half_window) THEN [panic |-> TRUE, grads |-> <<>>]
        ELSE IF checks /\ ys # {} /\ SubOverflows(width, half_window)
        THEN [panic |-> TRUE, grads |-> <<>>]
        ELSE IF \E y \in ys, x \in xs : GradCellPanics(data, x, y, width, height, half_window)
        THEN [panic |-> TRUE, grads |-> <<>>]
        ELSE [panic |-> FALSE,
              grads |-> [i \in 1..(width * height) |->
                          LET x == (i - 1) % width
                              y == (i - 1) \div width
                          IN  IF x \in xs /\ y \in ys
                              THEN <<FDiv(WindowSum(data, y * width + x, 1, 1, half_window), hw),
                                     FDiv(WindowSum(data, y * width + x, width, 1, half_window), hw)>>
                              ELSE zero]]

----------------------------------------------------------------------------
(* draw_vector_field                                                       *)

step == 30

\* (0..n).step_by(step)
StepBy(n) == {v \in 0..(n - 1) : v % step = 0}

\* norm > 0.0 with norm = sqrt(dx^2 + dy^2): FALSE for a NaN and for the zero vector
NormPositive(g) == FGt(FAdd(FMul(g[1], g[1]), FMul(g[2], g[2])), Fin(0))

arrow_color == <<255, 255, 255, 255>>

\* The function panics when gradients[idx] is out of range.  draw_line_segment_mut
\* (imageproc) draws the pixels of a segment that lie inside the image and never
\* panics; of an arrow only its first pixel (x, y), which the segment starts from, is
\* modelled
draw_vector_field(image, grads, width, height) ==
    LET pts == {p \in StepBy(width) \X StepBy(height) : TRUE}
    IN  IF \E p \in pts : p[2] * width + p[1] >= Len(grads)
        THEN [panic |-> TRUE, img |-> image]
        ELSE [panic |-> FALSE,
              img |-> [image EXCEPT !.px =
                         [i \in 1..Len(image.px) |->
                            IF \E p \in pts : /\ InImage(image, p[1], p[2])
                                              /\ i = p[2] * image.width + p[1] + 1
                                              /\ NormPositive(grads[p[2] * width + p[1] + 1])
                            THEN arrow_color ELSE image.px[i]]]]

----------------------------------------------------------------------------
(* main                                                                    *)

window_size == 61
azimuth == 315
altitude == 45

\* image.save(..).expect(..): the file is written, or the program aborts with the
\* files written so far left in place.  out_ok is whether the output directory takes
\* the next write, which a write that went through does not settle
Save(name, next) ==
    IF out_ok
    THEN pc' = next /\ files' = Append(files, name) /\ out_ok' \in BOOLEAN
    ELSE pc' = "abort" /\ UNCHANGED <<files, out_ok>>

\* read_file(file_path) and asc_to_image(file_content).expect(..)
ReadAndParse ==
    /\ pc = "start"
    /\ IF ~file_ok
       THEN pc' = "abort" /\ UNCHANGED result
       ELSE LET r == asc_to_image(content)
            IN  result' = r /\ pc' = (IF r.ok THEN "parsed" ELSE "abort")
    /\ UNCHANGED <<grad_window, overflow_checks, file_ok, out_ok, content, image_gray, img_rgb,
                   hillshade_gray, hillshade_rgb, gradients, grad_img, files>>

RenderGray ==
    /\ pc = "parsed"
    /\ LET r == data_to_grayscale(result.cells, result.width, result.height)
       IN  IF r.panic THEN pc' = "abort" /\ UNCHANGED image_gray
           ELSE pc' = "gray_ready" /\ image_gray' = r.img
    /\ UNCHANGED <<grad_window, overflow_checks, file_ok, out_ok, content, result, img_rgb,
                   hillshade_gray, hillshade_rgb, gradients, grad_img, files>>

SaveGray ==
    /\ pc = "gray_ready"
    /\ Save("output", "gray_saved")
    /\ UNCHANGED <<grad_window, overflow_checks, file_ok, content, result, image_gray, img_rgb,
                   hillshade_gray, hillshade_rgb, gradients, grad_img>>

RenderRgb ==
    /\ pc = "gray_saved"
    /\ LET r == rgb(result.cells, result.width, result.height)
       IN  IF r.panic THEN pc' = "abort" /\ UNCHANGED img_rgb
           ELSE pc' = "rgb_ready" /\ img_rgb' = r.img
    /\ UNCHANGED <<grad_window, overflow_checks, file_ok, out_ok, content, result, image_gray,
                   hillshade_gray, hillshade_rgb, gradients, grad_img, files>>

SaveRgb ==
    /\ pc = "rgb_ready"
    /\ Save("output_rgb_turbo", "rgb_saved")
    /\ UNCHANGED <<grad_window, overflow_checks, file_ok, content, result, image_gray, img_rgb,
                   hillshade_gray, hillshade_rgb, gradients, grad_img>>

HillShading ==
    /\ pc = "rgb_saved"
    /\ LET r == hill_shading(result.cells, img_rgb, result.width, result.height,
                             result.cell_size, azimuth, altitude, overflow_checks)
       IN  IF r.panic THEN pc' = "abort" /\ UNCHANGED <<hillshade_gray, hillshade_rgb>>
           ELSE pc' = "hill_ready" /\ hillshade_gray' = r.gray /\ hillshade_rgb' = r.rgb
    /\ UNCHANGED <<grad_window, overflow_checks, file_ok, out_ok, content, result, image_gray, img_rgb,
                   gradients, grad_img, files>>

SaveHillGray ==
    /\ pc = "hill_ready"
    /\ Save("hillshade_gray", "hill_gray_saved")
    /\ UNCHANGED <<grad_window, overflow_checks, file_ok, content, result, image_gray, img_rgb,
                   hillshade_gray, hillshade_rgb, gradients, grad_img>>

SaveHillRgb ==
    /\ pc = "hill_gray_saved"
    /\ Save("hillshade_rgb", "hill_rgb_saved")
    /\ UNCHANGED <<grad_window, overflow_checks, file_ok, content, result, image_gray, img_rgb,
                   hillshade_gray, hillshade_rgb, gradients, grad_img>>

\* grad_img = hillshade_rgb.clone(), compute_gradients and draw_vector_field
GradientOverlay ==
    /\ pc = "hill_rgb_saved"
    /\ LET g == compute_gradients(result.cells, result.width, result.height, window_size,
                                  overflow_checks)
           d == draw_vector_field(hillshade_rgb, g.grads, result.width, result.height)
       IN  IF g.panic THEN pc' = "abort" /\ UNCHANGED <<gradients, grad_img>>
           ELSE IF d.panic THEN pc' = "abort" /\ gradients' = g.grads /\ UNCHANGED grad_img
           ELSE pc' = "grad_ready" /\ gradients' = g.grads /\ grad_img' = d.img
    /\ UNCHANGED <<grad_window, overflow_checks, file_ok, out_ok, content, result, image_gray, img_rgb,
                   hillshade_gray, hillshade_rgb, files>>

SaveGradImg ==
    /\ pc = "grad_ready"
    /\ Save("hillshade_grasssd_img", "done")
    /\ UNCHANGED <<grad_window, overflow_checks, file_ok, content, result, image_gray, img_rgb,
                   hillshade_gray, hillshade_rgb, gradients, grad_img>>

----------------------------------------------------------------------------
(* The inputs of main                                                      *)

\* the header of the repository's test files, for the dimension tokens w and h
StdHeader(w, h) ==
    << <<"ncols", w>>, <<"nrows", h>>, <<"xllcorner", "0">>, <<"yllcorner", "0">>,
       <<"cellsize", "1">>, <<"nodata_value", "-9999">> >>

DimTokens == {"0", "1", "2", "3"}

Patterns == {"flat", "ramp", "hole"}

\* n data tokens: all "1"; "1", "2", "5" in turn; or all "1" but a nodata in the middle
DataTokens(n, p) ==
    [i \in 1..n |->
        IF p = "ramp" THEN <<"1", "2", "5">>[((i - 1) % 3) + 1]
        ELSE IF p = "hole" /\ i = (n + 1) \div 2 THEN "-9999"
        ELSE "1"]

\* tokens cut into rows of len tokens
RECURSIVE Rows(_, _)
Rows(tokens, len) ==
    IF tokens = <<>> THEN <<>>
    ELSE IF Len(tokens) <= len THEN <<tokens>>
    ELSE <<SubSeq(tokens, 1, len)>> \o Rows(SubSeq(tokens, len + 1, Len(tokens)), len)

\* half_window x half_window cells of 1: the smallest grid main renders to the end
BigDim == "30"
BigInput == StdHeader(BigDim, BigDim) \o [r \in 1..30 |-> [c \in 1..30 |-> "1"]]

MainInputs ==
    {StdHeader(w, h) \o Rows(DataTokens(n, p), 3) :
        w \in DimTokens, h \in DimTokens, n \in 0..MaxMainCells, p \in Patterns}
    \cup {<< <<"ncols", "abc">> >> \o Tail(StdHeader("2", "2")) \o Rows(DataTokens(4, "flat"), 2)}
    \cup {Tail(StdHeader("2", "2")) \o Rows(DataTokens(n, "flat"), 2) : n \in 0..MaxMainCells}
    \cup {BigInput}

Blank == [ok |-> FALSE, cells |-> <<>>, width |-> 0, height |-> 0, cell_size |-> Fin(1)]

Init ==
    /\ pc = "start"
    /\ overflow_checks \in BOOLEAN
    /\ file_ok \in BOOLEAN
    /\ out_ok \in BOOLEAN
    /\ content \in (IF file_ok THEN MainInputs ELSE {<<>>})
    /\ result = Blank
    /\ image_gray = NoImage
    /\ img_rgb = NoImage
    /\ hillshade_gray = NoImage
    /\ hillshade_rgb = NoImage
    /\ gradients = <<>>
    /\ grad_img = NoImage
    /\ grad_window = window_size
    /\ files = <<>>

Next ==
    \/ ReadAndParse
    \/ RenderGray
    \/ SaveGray
    \/ RenderRgb
    \/ SaveRgb
    \/ HillShading
    \/ SaveHillGray
    \/ SaveHillRgb
    \/ GradientOverlay
    \/ SaveGradImg

Spec == Init /\ [][Next]_vars

----------------------------------------------------------------------------
(* asc_to_image called on its own, as the tests call it                    *)

GoodLines ==
    {<<"ncols", "3">>, <<"nrows", "2">>, <<"xllcorner", "0">>, <<"cellsize", "5">>,
     <<"nodata_value", "-9999">>}

\* one more line: another key, a key again, a value that does not parse, three tokens
ExtraLines ==
    {<<"yllcorner", "0">>, <<"ncols", "2">>, <<"ncols", "abc">>, <<"nrows", "2.0">>,
     <<"cellsize", "abc">>, <<"nodata_value", "abc">>, <<"ncols", "abc", "0">>}

\* the sequences of at most n distinct elements of S
RECURSIVE Arrangements(_, _)
Arrangements(S, n) ==
    IF n = 0 THEN {<<>>}
    ELSE {<<>>} \cup UNION {{<<x>> \o t : t \in Arrangements(S \ {x}, n - 1)} : x \in S}

Headers == UNION {Arrangements(GoodLines \cup {e}, MaxHeaderLines) : e \in ExtraLines}

\* nothing, or one more key-value line between the header and the data rows
LateLines == {<<>>, << <<"xllcorner", "0">> >>, << <<"ncols", "5">> >>, << <<"ncols", "abc">> >>}

DataRows ==
    {<< <<"1", "2", "-9999">>, <<"-9999.0", "5", "inf">> >>,
     << <<"1", "2">> >>,
     << <<"1", "abc", "2">>, <<"5", "5", "1">>, <<"2", "2.0">> >>}

ParseInputs == {h \o l \o d : h \in Headers, l \in LateLines, d \in DataRows}

Idle ==
    /\ overflow_checks = TRUE
    /\ file_ok = TRUE
    /\ out_ok = TRUE
    /\ image_gray = NoImage
    /\ hillshade_gray = NoImage
    /\ hillshade_rgb = NoImage
    /\ gradients = <<>>
    /\ grad_img = NoImage
    /\ grad_window = window_size
    /\ files = <<>>

InitParse ==
    /\ pc = "call_asc_to_image"
    /\ content \in ParseInputs
    /\ result = Blank
    /\ img_rgb = NoImage
    /\ Idle

CallAscToImage ==
    /\ pc = "call_asc_to_image"
    /\ result' = asc_to_image(content)
    /\ pc' = "returned"
    /\ UNCHANGED <<grad_window, overflow_checks, file_ok, out_ok, content, image_gray, img_rgb,
                   hillshade_gray, hillshade_rgb, gradients, grad_img, files>>

SpecParse == InitParse /\ [][CallAscToImage]_vars

----------------------------------------------------------------------------
(* data_to_grayscale called on its own                                     *)

GrayValues == {Fin(0), Fin(1), Fin(2), Fin(5), NaN, PInf}

SeqsUpTo(S, n) == UNION {[1..k -> S] : k \in 0..n}

Grid(cells, w, h, cs) == [ok |-> TRUE, cells |-> cells, width |-> w, height |-> h, cell_size |-> cs]

InitGray ==
    /\ pc = "call_data_to_grayscale"
    /\ content = <<>>
    /\ \E cells \in SeqsUpTo(GrayValues, MaxGrayCells), w \in 0..MaxDim, h \in 0..MaxDim :
          result = Grid(cells, w, h, Fin(1))
    /\ img_rgb = NoImage
    /\ Idle

CallDataToGrayscale ==
    /\ pc = "call_data_to_grayscale"
    /\ LET r == data_to_grayscale(result.cells, result.width, result.height)
       IN  /\ image_gray' = r.img
           /\ pc' = (IF r.panic THEN "panicked" ELSE "returned")
    /\ UNCHANGED <<grad_window, overflow_checks, file_ok, out_ok, content, result, img_rgb,
                   hillshade_gray, hillshade_rgb, gradients, grad_img, files>>

SpecGray == InitGray /\ [][CallDataToGrayscale]_vars

----------------------------------------------------------------------------
(* hill_shading called on its own                                          *)

HillValues == {Fin(2), NaN, PInf}

\* a grid of n cells of 1 of which the cells of sp hold the values of sp
Surface(n, sp) == [i \in 1..n |-> IF i \in DOMAIN sp THEN sp[i] ELSE Fin(1)]

\* the partial maps from 1..n to HillValues with at most MaxSpecial cells
Specials(n) ==
    UNION {[D -> HillValues] : D \in {D \in SUBSET (1..n) : Cardinality(D) <= MaxSpecial}}

Palette == {<<0, 0, 0, 0>>, <<255, 255, 255, 255>>, <<48, 18, 59, 255>>}

\* the coloured images: one colour all over, of the size of the grid or empty
ColoredImages(w, h) == {NewImage(w, h, c) : c \in Palette} \cup {NoImage}

InitHill ==
    /\ pc = "call_hill_shading"
    /\ content = <<>>
    /\ \E w \in 0..MaxDim, h \in 0..MaxDim, cs \in {Fin(1), Fin(2)} :
          /\ \E sp \in Specials(w * h) : result = Grid(Surface(w * h, sp), w, h, cs)
          /\ img_rgb \in ColoredImages(w, h)
    /\ overflow_checks \in BOOLEAN
    /\ file_ok = TRUE
    /\ out_ok = TRUE
    /\ image_gray = NoImage
    /\ hillshade_gray = NoImage
    /\ hillshade_rgb = NoImage
    /\ gradients = <<>>
    /\ grad_img = NoImage
    /\ grad_window = window_size
    /\ files = <<>>

CallHillShading ==
    /\ pc = "call_hill_shading"
    /\ LET r == hill_shading(result.cells, img_rgb, result.width, result.height,
                             result.cell_size, azimuth, altitude, overflow_checks)
       IN  /\ hillshade_gray' = r.gray
           /\ hillshade_rgb' = r.rgb
           /\ pc' = (IF r.panic THEN "panicked" ELSE "returned")
    /\ UNCHANGED <<grad_window, overflow_checks, file_ok, out_ok, content, result, image_gray, img_rgb,
                   gradients, grad_img, files>>

SpecHill == InitHill /\ [][CallHillShading]_vars

----------------------------------------------------------------------------
(* compute_gradients called on its own                                     *)

\* the window sizes handed to compute_gradients: the odd sizes up to 5, of half-window
\* 0, 1 and 2
WindowSizes == {1, 3, 5}

GradValues == {Fin(0), Fin(5), NaN}

\* the cells of a grid of n cells: all 1, or 1, 2, 5 in turn, but for the cells of sp
GradSurface(n, p, sp) ==
    [i \in 1..n |->
        IF i \in DOMAIN sp THEN sp[i]
        ELSE IF p = "ramp" THEN <<Fin(1), Fin(2), Fin(5)>>[((i - 1) % 3) + 1]
        ELSE Fin(1)]

\* the partial maps from 1..n to GradValues with at most MaxSpecial cells
GradSpecials(n) ==
    UNION {[D -> GradValues] : D \in {D \in SUBSET (1..n) : Cardinality(D) <= MaxSpecial}}

InitGrad ==
    /\ pc = "call_compute_gradients"
    /\ content = <<>>
    /\ \E w \in 0..MaxDim, h \in 0..MaxDim, p \in {"flat", "ramp"} :
          \E sp \in GradSpecials(w * h) : result = Grid(GradSurface(w * h, p, sp), w, h, Fin(1))
    /\ grad_window \in WindowSizes
    /\ overflow_checks \in BOOLEAN
    /\ file_ok = TRUE
    /\ out_ok = TRUE
    /\ image_gray = NoImage
    /\ img_rgb = NoImage
    /\ hillshade_gray = NoImage
    /\ hillshade_rgb = NoImage
    /\ gradients = <<>>
    /\ grad_img = NoImage
    /\ files = <<>>

CallComputeGradients ==
    /\ pc = "call_compute_gradients"
    /\ LET r == compute_gradients(result.cells, result.width, result.height, grad_window,
                                  overflow_checks)
       IN  /\ gradients' = r.grads
           /\ pc' = (IF r.panic THEN "panicked" ELSE "returned")
    /\ UNCHANGED <<grad_window, overflow_checks, file_ok, out_ok, content, result, image_gray,
                   img_rgb, hillshade_gray, hillshade_rgb, grad_img, files>>

SpecGrad == InitGrad /\ [][CallComputeGradients]_vars

----------------------------------------------------------------------------
(* Properties of asc_to_image (under SpecParse)                            *)

IsNumeric(tok) == tok \in DOMAIN F32Table

\* a `<key> <value>` line: two tokens, the first of them a word
IsPair(line) == Len(line) = 2 /\ ~IsNumeric(line[1])

\* a row of numeric tokens
IsRow(line) == line # <<>> /\ \A j \in 1..Len(line) : IsNumeric(line[j])

\* the lines among the first n that name key
KeyLines(text, key, n) == {i \in 1..n : text[i][1] = key}

\* the value token of the one line among the first n that names key
ValueOf(text, key, n) == text[CHOOSE i \in KeyLines(text, key, n) : TRUE][2]

\* a value that its field cannot take: not a u32 for ncols and nrows, not an f32 for
\* cellsize and nodata_value
BadField(line) ==
    /\ Len(line) = 2
    /\ \/ line[1] \in {"ncols", "nrows"} /\ line[2] \notin DOMAIN U32Table
       \/ line[1] \in {"cellsize", "nodata_value"} /\ line[2] \notin DOMAIN F32Table

\* the first n lines are key-value lines naming ncols, nrows and nodata_value once,
\* cellsize at most once, each with a value of its type, and rows of numeric tokens follow
HeaderThenRows(text, n) ==
    /\ Len(text) >= n
    /\ \A i \in 1..n : IsPair(text[i]) /\ ~BadField(text[i])
    /\ \A key \in {"ncols", "nrows", "nodata_value"} : Cardinality(KeyLines(text, key, n)) = 1
    /\ Cardinality(KeyLines(text, "cellsize", n)) <= 1
    /\ \A i \in (n + 1)..Len(text) : IsRow(text[i])

\* the tokens of the lines from line `from` on, in file order
TokensFrom(text, from) ==
    LET count(i) == Len(text[i])
        RECURSIVE before(_)
        before(i) == IF i <= from THEN 0 ELSE before(i - 1) + count(i - 1)
        total == before(Len(text) + 1)
        line_of(t) == CHOOSE i \in from..Len(text) : before(i) < t /\ t <= before(i) + count(i)
    IN  [t \in 1..total |-> text[line_of(t)][t - before(line_of(t))]]

\* the cells the claims C2 and C9 describe: the data tokens after n header lines,
\* NaN in place of each whose value equals that of the nodata_value line
CellsAsWritten(text, n) ==
    LET nodata == F32Table[ValueOf(text, "nodata_value", n)]
        toks == TokensFrom(text, n + 1)
    IN  [t \in 1..Len(toks) |->
            IF FEq(F32Table[toks[t]], nodata) THEN NaN ELSE F32Table[toks[t]]]

\* the grid the claims C2 and C9 describe for a text of n header lines
GridAsWritten(text, n) ==
    [ok |-> TRUE,
     cells |-> CellsAsWritten(text, n),
     width |-> U32Table[ValueOf(text, "ncols", n)],
     height |-> U32Table[ValueOf(text, "nrows", n)],
     cell_size |-> IF KeyLines(text, "cellsize", n) = {} THEN Fin(1)
                   ELSE F32Table[ValueOf(text, "cellsize", n)]]

\* C1: every grid asc_to_image returns as Ok has cells.len() == width * height,
\* width > 0 and height > 0 (an input with no dimensions, or with fewer or more
\* values than width * height, is an error)
C1_GridInvariant ==
    (pc = "returned" /\ result.ok) =>
        /\ Len(result.cells) = result.width * result.height
        /\ result.width > 0
        /\ result.height > 0

\* C2: a text of six header lines naming ncols W, nrows H, nodata_value N and
\* possibly cellsize C, in any order, followed by rows of numeric tokens, is parsed
\* to width W, height H, cell size C (1.0 without a cellsize line) and the data
\* tokens in file order, NaN in place of each token whose value is N
C2_ParsedAsWritten ==
    (pc = "returned" /\ HeaderThenRows(content, HeaderLineCount)) =>
        result = GridAsWritten(content, HeaderLineCount)

\* a well-formed text with no cellsize line whose ncols line is not the first, parsed
\* to cell size 1.0 with "-9999.0" stored as NaN and "inf" kept
C2_Witness ==
    /\ pc = "returned"
    /\ HeaderThenRows(content, HeaderLineCount)
    /\ KeyLines(content, "cellsize", HeaderLineCount) = {}
    /\ content[1][1] # "ncols"
    /\ result.ok /\ result.cell_size = Fin(1)
    /\ Len(result.cells) = 6
    /\ TokensFrom(content, HeaderLineCount + 1)[4] = "-9999.0" /\ IsNaN(result.cells[4])
    /\ result.cells[6] = PInf

\* C8: a header line (one of the first six lines) that names ncols, nrows, cellsize
\* or nodata_value with a value that is no number of the field's type makes
\* asc_to_image return Err
C8_BadHeaderFieldIsError ==
    (pc = "returned" /\ \E i \in 1..Min(HeaderLineCount, Len(content)) : BadField(content[i]))
        => ~result.ok

\* an Err for a text whose bad field comes after header lines that parsed
C8_Witness ==
    /\ pc = "returned"
    /\ ~result.ok
    /\ \E i \in 3..Min(HeaderLineCount, Len(content)) :
          /\ BadField(content[i])
          /\ content[i][1] = "nodata_value"
          /\ \A j \in 1..(i - 1) : ~BadField(content[j])

\* the number of key-value lines the text starts with
LeadingPairs(text) ==
    CHOOSE n \in 0..Len(text) :
        /\ \A i \in 1..n : IsPair(text[i])
        /\ n < Len(text) => ~IsPair(text[n + 1])

\* C9: a text of k >= 6 header lines followed by data rows is parsed to the numeric
\* tokens of the data rows only, and the recognised keys of all k header lines set
\* their fields
C9_HeaderOfAnyLength ==
    (/\ pc = "returned"
     /\ LeadingPairs(content) >= HeaderLineCount
     /\ HeaderThenRows(content, LeadingPairs(content))) =>
        result = GridAsWritten(content, LeadingPairs(content))

----------------------------------------------------------------------------
(* Properties of data_to_grayscale (under SpecGray)                        *)

\* the cells of the grid in hand that are not NaN
NonNaN == {i \in 1..Len(result.cells) : ~IsNaN(result.cells[i])}

\* the pixel data_to_grayscale wrote for cell i (counted from 1)
GrayPixel(i) == get_pixel(image_gray, (i - 1) % result.width, (i - 1) \div result.width)

\* the cells that hold the least and the greatest value that is not NaN
MinCells == {i \in NonNaN : \A j \in NonNaN : ~FLt(result.cells[j], result.cells[i])}
MaxCells == {i \in NonNaN : \A j \in NonNaN : ~FGt(result.cells[j], result.cells[i])}

\* max > min over the cells that are not NaN
ProperRange == \E i \in NonNaN, j \in NonNaN : FLt(result.cells[i], result.cells[j])

\* max - min is finite: neither is infinite (the finite cells of the model are small)
FiniteRange == \A i \in NonNaN : IsFin(result.cells[i])

\* C7: a NaN cell is rendered as pixel 0 wherever it is and whatever the other cells
\* are, and when the cells that are not NaN all have the same value (or there is
\* none) every pixel is 0
C7_AnomaliesRenderZero ==
    pc = "returned" =>
        /\ \A i \in 1..Len(result.cells) : IsNaN(result.cells[i]) => GrayPixel(i) = 0
        /\ ~ProperRange => \A j \in 1..Len(image_gray.px) : image_gray.px[j] = 0

\* a NaN cell rendered 0 after a cell rendered 255 and before one rendered in between
C7_Witness ==
    /\ pc = "returned"
    /\ Len(result.cells) = 4
    /\ GrayPixel(1) = 255
    /\ IsNaN(result.cells[2]) /\ GrayPixel(2) = 0
    /\ GrayPixel(3) = 51
    /\ GrayPixel(4) = 0 /\ ~IsNaN(result.cells[4])

\* the parts of C10 that hold of every grid: the pixels are monotone in the cells,
\* lie in 0..255, and a minimum cell has pixel 0
GrayMonotone ==
    /\ \A i \in NonNaN, j \in NonNaN :
          FLt(result.cells[i], result.cells[j]) => GrayPixel(i) <= GrayPixel(j)
    /\ \A j \in 1..Len(image_gray.px) : image_gray.px[j] \in 0..255
    /\ \A i \in MinCells : GrayPixel(i) = 0

\* C10 as stated: for two cells a < b that are not NaN the pixel of a is at most the
\* pixel of b, every pixel lies in 0..255, a minimum cell has pixel 0 and, when
\* max > min, a maximum cell has pixel 255
C10_MonotoneMinMax ==
    pc = "returned" =>
        /\ GrayMonotone
        /\ ProperRange => \A i \in MaxCells : GrayPixel(i) = 255

\* C10 as amended: the same, the maximum cell having pixel 255 when max > min and
\* max - min is finite
C10_MonotoneFiniteRange ==
    pc = "returned" =>
        /\ GrayMonotone
        /\ (ProperRange /\ FiniteRange) => \A i \in MaxCells : GrayPixel(i) = 255

\* three different finite cells, rendered 0, 51 and 255
C10_Witness ==
    /\ pc = "returned"
    /\ FiniteRange
    /\ \E i \in NonNaN, j \in NonNaN, k \in NonNaN :
          /\ FLt(result.cells[i], result.cells[j]) /\ FLt(result.cells[j], result.cells[k])
          /\ GrayPixel(i) = 0 /\ GrayPixel(j) = 51 /\ GrayPixel(k) = 255

\* the normalised value t of cell i: (v - min) / (max - min) for a cell v that is not
\* NaN when max > min, and 0 otherwise, min and max over the cells that are not NaN
NormalisedT(i) ==
    IF ~IsNaN(result.cells[i]) /\ ProperRange
    THEN LET lo == result.cells[CHOOSE m \in MinCells : TRUE]
             hi == result.cells[CHOOSE m \in MaxCells : TRUE]
         IN  FDiv(FSub(result.cells[i], lo), FSub(hi, lo))
    ELSE Fin(0)

\* a value of 0..255 rounded to the nearest integer, and cut to its integer part; a
\* NaN (the t of an infinite cell) gives 0 either way
RoundHalfUp(a) == IF IsFin(a) THEN (2 * a.n + a.d) \div (2 * a.d) ELSE 0
IntegerPart(a) == IF IsFin(a) THEN a.n \div a.d ELSE 0

\* C11 as stated: the pixel data_to_grayscale writes for a cell is round(t * 255), t
\* being the normalised value of the cell
C11_PixelIsRounded ==
    pc = "returned" =>
        \A i \in 1..Len(result.cells) : GrayPixel(i) = RoundHalfUp(FMul(NormalisedT(i), Fin(255)))

\* C11 as amended: the pixel data_to_grayscale writes for a cell is t * 255 cut to its
\* integer part
C11_PixelIsTruncated ==
    pc = "returned" =>
        \A i \in 1..Len(result.cells) : GrayPixel(i) = IntegerPart(FMul(NormalisedT(i), Fin(255)))

\* the cells 0, 1, 2 of test_data_to_grayscale_basic: t * 255 = 127.5 is rendered 127
C11_Witness ==
    /\ pc = "returned"
    /\ \E i \in NonNaN :
          /\ FMul(NormalisedT(i), Fin(255)) = Rat(255, 2)
          /\ GrayPixel(i) = 127

----------------------------------------------------------------------------
(* Properties of hill_shading (under SpecHill)                             *)

\* the cell (x, y) is on the border of the grid in hand
OnBorder(x, y) == x = 0 \/ y = 0 \/ x = result.width - 1 \/ y = result.height - 1

\* the coordinates of the grid in hand
Coords == {c \in (0..(result.width - 1)) \X (0..(result.height - 1)) : TRUE}

\* C5: in the two rasters hill_shading returns every border cell keeps the default
\* value (grayscale 0, RGBA (0,0,0,0)) and every interior cell of the RGB raster has
\* alpha 255; for a grid with width < 3 or height < 3 no cell is written at all
C5_BorderPolicy ==
    pc = "returned" =>
        /\ hillshade_gray.width = result.width /\ hillshade_gray.height = result.height
        /\ hillshade_rgb.width = result.width /\ hillshade_rgb.height = result.height
        /\ \A c \in Coords :
              IF OnBorder(c[1], c[2])
              THEN /\ get_pixel(hillshade_gray, c[1], c[2]) = 0
                   /\ get_pixel(hillshade_rgb, c[1], c[2]) = <<0, 0, 0, 0>>
              ELSE get_pixel(hillshade_rgb, c[1], c[2])[4] = 255
        /\ (result.width < 3 \/ result.height < 3) =>
              /\ \A j \in 1..Len(hillshade_gray.px) : hillshade_gray.px[j] = 0
              /\ \A j \in 1..Len(hillshade_rgb.px) : hillshade_rgb.px[j] = <<0, 0, 0, 0>>

\* a 3 x 3 grid whose centre is lit in both rasters inside a border left unwritten
C5_Witness ==
    /\ pc = "returned"
    /\ result.width = 3 /\ result.height = 3
    /\ get_pixel(hillshade_gray, 1, 1) > 0
    /\ get_pixel(hillshade_rgb, 1, 1)[1] > 0
    /\ get_pixel(hillshade_rgb, 1, 1)[4] = 255
    /\ get_pixel(hillshade_rgb, 0, 0) = <<0, 0, 0, 0>>
    /\ get_pixel(hillshade_rgb, 2, 2) = <<0, 0, 0, 0>>

\* one of the nine values of the 3 x 3 neighbourhood of (x, y) is NaN
NaNAround(x, y) ==
    \E dx \in {-1, 0, 1}, dy \in {-1, 0, 1} :
        IsNaN(result.cells[idx(x, y, result.width, dx, dy) + 1])

\* C6: an interior cell with a NaN among the nine values of its neighbourhood, itself
\* included, is rendered black: grayscale 0 and RGBA (0,0,0,255), whatever the colour
\* of the coloured image there
C6_NaNNeighbourhoodIsBlack ==
    pc = "returned" =>
        \A c \in Coords :
            (~OnBorder(c[1], c[2]) /\ NaNAround(c[1], c[2])) =>
                /\ get_pixel(hillshade_gray, c[1], c[2]) = 0
                /\ get_pixel(hillshade_rgb, c[1], c[2]) = <<0, 0, 0, 255>>

----------------------------------------------------------------------------
(* Properties of main (under Spec)                                         *)

\* the positions of main at which a stage downstream of the parse runs:
\* data_to_grayscale, rgb, hill_shading, compute_gradients and draw_vector_field
StagePositions == {"parsed", "gray_saved", "rgb_saved", "hill_rgb_saved"}

\* C3: after a successful parse no downstream stage fails: none of the steps
\* data_to_grayscale, rgb, hill_shading, compute_gradients and draw_vector_field
\* ends the run in a panic
C3_NoStageFails == [][(pc \in StagePositions) => (pc' # "abort")]_vars

\* C4: no output file is written in a run that ends in a failure: when main aborts
\* the set of the files saved so far is empty
C4_NoFilesOnAbort == pc = "abort" => files = <<>>

----------------------------------------------------------------------------
(* Properties of compute_gradients (under SpecGrad)                        *)

\* the half-window h = window_size / 2 of the call in hand
HalfWindow == grad_window \div 2

\* the cell (x, y) is within h of a border of the grid in hand
NearBorder(x, y) ==
    x < HalfWindow \/ y < HalfWindow
        \/ x >= result.width - HalfWindow \/ y >= result.height - HalfWindow

\* the sum of the k cells that follow (x, y) in the direction (dx, dy)
RECURSIVE CellSum(_, _, _, _, _)
CellSum(x, y, dx, dy, k) ==
    IF k = 0 THEN Fin(0)
    ELSE FAdd(result.cells[(y + k * dy) * result.width + (x + k * dx) + 1],
              CellSum(x, y, dx, dy, k - 1))

\* the vector the cell (x, y), which is not within h of a border, is to hold
WindowGradient(x, y) ==
    <<FDiv(FSub(CellSum(x, y, -1, 0, HalfWindow), CellSum(x, y, 1, 0, HalfWindow)),
           Fin(HalfWindow)),
      FDiv(FSub(CellSum(x, y, 0, -1, HalfWindow), CellSum(x, y, 0, 1, HalfWindow)),
           Fin(HalfWindow))>>

\* the vectors returned are width * height in number, zero within h of a border and
\* the window differences elsewhere
GradientsOfWindow ==
    /\ Len(gradients) = result.width * result.height
    /\ \A c \in Coords :
          gradients[c[2] * result.width + c[1] + 1] =
              (IF NearBorder(c[1], c[2]) THEN <<Fin(0), Fin(0)>> ELSE WindowGradient(c[1], c[2]))

\* C12: for every grid of width * height cells and every odd window_size,
\* compute_gradients returns width * height vectors in row-major order, the zero
\* vector for a cell within h = window_size / 2 of a border and, for every other cell,
\* the sums of the h cells before it minus the h cells after it, along its row and
\* along its column, divided by h
C12_GradientsAsSpecified ==
    (pc \in {"returned", "panicked"} /\ Len(result.cells) = result.width * result.height) =>
        (pc = "returned" /\ GradientsOfWindow)

====
